---------------------------- MODULE Spec2Model ----------------------------
(***************************************************************************)
(* TruePass chatbot (src/TruePass/Chatbot/chatbot.py): the keyword intent  *)
(* scorer, the entity extractor, the response dispatcher of one session    *)
(* and the Flask wrapper that keeps the sessions of the HTTP service.      *)
(*                                                                         *)
(* A text is a sequence of characters (one-character strings), so that     *)
(* lower(), strip(), split(), the substring test "kw in text" and the      *)
(* three regular expressions are computed character by character.          *)
(***************************************************************************)
EXTENDS Integers, Sequences, FiniteSets, TLC

VARIABLES
  user_input,            \* text handed to the pure functions (SpecAnalyze)
  intent_analysis,       \* what analyze_user_intent returned for user_input
  bot,                   \* one TruePassWebChatbot driven by one caller (Spec)
  turn,                  \* the last call made on bot and what it returned
  completed,             \* number of completion calls that returned to bot
  active_sessions,       \* create_web_api_wrapper: session id -> chatbot
  heap,                  \* the chatbot objects constructed by the service
  clock,                 \* datetime.now() truncated to seconds
  workers,               \* the request each server thread is processing
  served,                \* what the HTTP service has answered so far
  requested,             \* entity names handed to _extract_entities
  extracted,             \* what _extract_entities returned (SpecExtract)
  exported               \* what export_session_data returned (SpecSession)

vars == << user_input, intent_analysis, bot, turn, completed,
           active_sessions, heap, clock, workers, served,
           requested, extracted, exported >>

-----------------------------------------------------------------------------
(* Characters and the str methods used by the code.                        *)

LowerLetters ==
  << "a", "b", "c", "d", "e", "f", "g", "h", "i", "j", "k", "l", "m",
     "n", "o", "p", "q", "r", "s", "t", "u", "v", "w", "x", "y", "z" >>

UpperLetters ==
  << "A", "B", "C", "D", "E", "F", "G", "H", "I", "J", "K", "L", "M",
     "N", "O", "P", "Q", "R", "S", "T", "U", "V", "W", "X", "Y", "Z" >>

Digits == { "0", "1", "2", "3", "4", "5", "6", "7", "8", "9" }

\* The rupee sign U+20B9 and the three characters the source file holds in
\* its place (the sign's UTF-8 bytes read as cp1252): U+00E2 U+201A U+00B9.
RUPEE == "U+20B9"
A_CIRC == "U+00E2"
LOW_QUOTE == "U+201A"
SUPER_ONE == "U+00B9"

Whitespace == { " ", "\t" }

Range(s) == { s[i] : i \in DOMAIN s }

\* \d of the re module on str patterns
IsDigit(c) == c \in Digits

\* \w of the re module on str patterns: alphanumerics and the underscore
IsWord(c) ==
  \/ c \in Range(LowerLetters) \cup Range(UpperLetters) \cup Digits
  \/ c \in { "_", A_CIRC, SUPER_ONE }

\* \s of the re module
IsSpace(c) == c \in Whitespace

LowerChar(c) ==
  IF \E i \in DOMAIN UpperLetters : UpperLetters[i] = c
    THEN LowerLetters[CHOOSE i \in DOMAIN UpperLetters : UpperLetters[i] = c]
    ELSE c

\* str.lower()
Lower(text) == [ i \in DOMAIN text |-> LowerChar(text[i]) ]

\* str.strip()
Strip(text) ==
  LET keep == { i \in DOMAIN text : ~IsSpace(text[i]) }
  IN  IF keep = {} THEN << >>
      ELSE SubSeq(text,
                  CHOOSE i \in keep : \A j \in keep : i <= j,
                  CHOOSE i \in keep : \A j \in keep : j <= i)

\* len(str.split()): the number of maximal runs of non-whitespace characters
WordCount(text) ==
  Cardinality({ i \in DOMAIN text :
                  /\ ~IsSpace(text[i])
                  /\ (i = 1 \/ IsSpace(text[i - 1])) })

\* the operator "kw in text" on str
Contains(text, kw) ==
  \E i \in 1 .. (Len(text) - Len(kw) + 1) :
     \A k \in 1 .. Len(kw) : text[i + k - 1] = kw[k]

\* sum(1 for kw in kws if kw in text)
Matches(kws, text) ==
  Cardinality({ i \in DOMAIN kws : Contains(text, kws[i]) })

\* any(kw in text for kw in kws)
AnyIn(kws, text) == \E i \in DOMAIN kws : Contains(text, kws[i])

Max(a, b) == IF a >= b THEN a ELSE b

-----------------------------------------------------------------------------
(* analyze_user_intent: the static pattern table.                          *)

\* iteration order of the intent_patterns dict (insertion order)
IntentOrder ==
  << "ticket_purchase", "ticket_generation", "ticket_validation",
     "wallet_connection", "nft_marketplace", "payment_issues",
     "technical_support", "general_info" >>

intent_patterns ==
  [ n \in {"ticket_purchase", "ticket_generation", "ticket_validation", "wallet_connection", "nft_marketplace", "payment_issues", "technical_support", "general_info"} |->
    CASE n = "ticket_purchase" ->
         [ keywords |-> <<
              <<"b", "u", "y", " ", "t", "i", "c", "k", "e", "t">>,
              <<"p", "u", "r", "c", "h", "a", "s", "e", " ", "t", "i", "c", "k", "e", "t">>,
              <<"t", "i", "c", "k", "e", "t", " ", "p", "r", "i", "c", "e">>,
              <<"b", "o", "o", "k", " ", "t", "i", "c", "k", "e", "t">>,
              <<"i", "n", "r">>,
              <<"r", "u", "p", "e", "e">>,
              <<"p", "a", "y">> >>,
           confidence_boost |-> <<
              <<"u", "p", "i">>,
              <<"p", "a", "y", "t", "m">>,
              <<"c", "r", "e", "d", "i", "t", " ", "c", "a", "r", "d">>,
              <<"p", "a", "y", "m", "e", "n", "t">> >>,
           entities |-> <<"price", "payment_method", "ticket_type">> ]
      [] n = "ticket_generation" ->
         [ keywords |-> <<
              <<"g", "e", "n", "e", "r", "a", "t", "e", " ", "t", "i", "c", "k", "e", "t">>,
              <<"c", "r", "e", "a", "t", "e", " ", "t", "i", "c", "k", "e", "t">>,
              <<"m", "i", "n", "t", " ", "t", "i", "c", "k", "e", "t">>,
              <<"n", "e", "w", " ", "t", "i", "c", "k", "e", "t">>,
              <<"t", "o", "t", "p">>,
              <<"q", "r", " ", "c", "o", "d", "e">> >>,
           confidence_boost |-> <<
              <<"a", "u", "t", "h", "e", "n", "t", "i", "c", "a", "t", "o", "r">>,
              <<"g", "o", "o", "g", "l", "e", " ", "a", "u", "t", "h", "e", "n", "t", "i", "c", "a", "t", "o", "r">>,
              <<"s", "e", "c", "r", "e", "t", " ", "k", "e", "y">> >>,
           entities |-> <<"event_name", "expiry_time", "ticket_id">> ]
      [] n = "ticket_validation" ->
         [ keywords |-> <<
              <<"v", "a", "l", "i", "d", "a", "t", "e", " ", "t", "i", "c", "k", "e", "t">>,
              <<"v", "e", "r", "i", "f", "y", " ", "t", "i", "c", "k", "e", "t">>,
              <<"c", "h", "e", "c", "k", " ", "t", "i", "c", "k", "e", "t">>,
              <<"a", "u", "t", "h", "e", "n", "t", "i", "c", "a", "t", "i", "o", "n">>,
              <<"t", "o", "t", "p", " ", "c", "o", "d", "e">> >>,
           confidence_boost |-> <<
              <<"6", " ", "d", "i", "g", "i", "t">>,
              <<"a", "u", "t", "h", "e", "n", "t", "i", "c", "a", "t", "o", "r", " ", "c", "o", "d", "e">>,
              <<"v", "a", "l", "i", "d", "a", "t", "i", "o", "n", " ", "f", "a", "i", "l", "e", "d">> >>,
           entities |-> <<"token_id", "totp_code", "validation_status">> ]
      [] n = "wallet_connection" ->
         [ keywords |-> <<
              <<"w", "a", "l", "l", "e", "t">>,
              <<"m", "e", "t", "a", "m", "a", "s", "k">>,
              <<"c", "o", "n", "n", "e", "c", "t", " ", "w", "a", "l", "l", "e", "t">>,
              <<"w", "a", "l", "l", "e", "t", " ", "c", "o", "n", "n", "e", "c", "t", "i", "o", "n">>,
              <<"e", "t", "h", "e", "r", "e", "u", "m">> >>,
           confidence_boost |-> <<
              <<"c", "a", "n", "'", "t", " ", "c", "o", "n", "n", "e", "c", "t">>,
              <<"c", "o", "n", "n", "e", "c", "t", "i", "o", "n", " ", "f", "a", "i", "l", "e", "d">>,
              <<"w", "a", "l", "l", "e", "t", " ", "e", "r", "r", "o", "r">> >>,
           entities |-> <<"wallet_type", "error_message", "network">> ]
      [] n = "nft_marketplace" ->
         [ keywords |-> <<
              <<"n", "f", "t">>,
              <<"m", "a", "r", "k", "e", "t", "p", "l", "a", "c", "e">>,
              <<"c", "o", "l", "l", "e", "c", "t", "i", "o", "n">>,
              <<"b", "u", "y", " ", "n", "f", "t">>,
              <<"s", "e", "l", "l", " ", "n", "f", "t">>,
              <<"t", "r", "a", "d", "e">> >>,
           confidence_boost |-> <<
              <<"o", "p", "e", "n", "s", "e", "a">>,
              <<"d", "i", "g", "i", "t", "a", "l", " ", "a", "r", "t">>,
              <<"c", "o", "l", "l", "e", "c", "t", "i", "b", "l", "e">> >>,
           entities |-> <<"nft_type", "collection_name", "price_range">> ]
      [] n = "payment_issues" ->
         [ keywords |-> <<
              <<"p", "a", "y", "m", "e", "n", "t", " ", "f", "a", "i", "l", "e", "d">>,
              <<"t", "r", "a", "n", "s", "a", "c", "t", "i", "o", "n", " ", "e", "r", "r", "o", "r">>,
              <<"p", "a", "y", "m", "e", "n", "t", " ", "n", "o", "t", " ", "w", "o", "r", "k", "i", "n", "g">>,
              <<"c", "a", "n", "'", "t", " ", "p", "a", "y">> >>,
           confidence_boost |-> <<
              <<"u", "p", "i", " ", "f", "a", "i", "l", "e", "d">>,
              <<"c", "a", "r", "d", " ", "d", "e", "c", "l", "i", "n", "e", "d">>,
              <<"p", "a", "y", "m", "e", "n", "t", " ", "t", "i", "m", "e", "o", "u", "t">> >>,
           entities |-> <<"payment_method", "error_code", "amount">> ]
      [] n = "technical_support" ->
         [ keywords |-> <<
              <<"e", "r", "r", "o", "r">>,
              <<"n", "o", "t", " ", "w", "o", "r", "k", "i", "n", "g">>,
              <<"p", "r", "o", "b", "l", "e", "m">>,
              <<"i", "s", "s", "u", "e">>,
              <<"h", "e", "l", "p">>,
              <<"s", "t", "u", "c", "k">> >>,
           confidence_boost |-> <<
              <<"b", "r", "o", "w", "s", "e", "r">>,
              <<"m", "o", "b", "i", "l", "e">>,
              <<"s", "l", "o", "w">>,
              <<"c", "r", "a", "s", "h", "e", "d">> >>,
           entities |-> <<"error_type", "device_type", "browser">> ]
      [] n = "general_info" ->
         [ keywords |-> <<
              <<"w", "h", "a", "t", " ", "i", "s">>,
              <<"h", "o", "w", " ", "d", "o", "e", "s">>,
              <<"e", "x", "p", "l", "a", "i", "n">>,
              <<"a", "b", "o", "u", "t">>,
              <<"o", "v", "e", "r", "v", "i", "e", "w">>,
              <<"f", "e", "a", "t", "u", "r", "e", "s">> >>,
           confidence_boost |-> <<
              <<"t", "r", "u", "e", "p", "a", "s", "s">>,
              <<"b", "l", "o", "c", "k", "c", "h", "a", "i", "n">>,
              <<"c", "r", "y", "p", "t", "o">> >>,
           entities |-> <<"topic", "feature_name">> ] ]

\* payment_methods of _extract_entities, in its priority order
payment_methods ==
  <<<<"u", "p", "i">>,
    <<"p", "a", "y", "t", "m">>,
    <<"c", "r", "e", "d", "i", "t", " ", "c", "a", "r", "d">>,
    <<"d", "e", "b", "i", "t", " ", "c", "a", "r", "d">>,
    <<"n", "e", "t", " ", "b", "a", "n", "k", "i", "n", "g">> >>

-----------------------------------------------------------------------------
(* _extract_entities: one rule per requested entity name.                  *)

\* last index of the greedy \d+ that starts at index i (text[i] is a digit)
RECURSIVE DigitRunEnd(_, _)
DigitRunEnd(text, i) ==
  IF i + 1 <= Len(text) /\ IsDigit(text[i + 1])
    THEN DigitRunEnd(text, i + 1)
    ELSE i

\* last index of the greedy \w+ that starts at index i (text[i] matches \w)
RECURSIVE WordRunEnd(_, _)
WordRunEnd(text, i) ==
  IF i + 1 <= Len(text) /\ IsWord(text[i + 1])
    THEN WordRunEnd(text, i + 1)
    ELSE i

\* index after the greedy \s* that starts at index i
RECURSIVE SkipSpaces(_, _)
SkipSpaces(text, i) ==
  IF i <= Len(text) /\ IsSpace(text[i])
    THEN SkipSpaces(text, i + 1)
    ELSE i

\* last index of (?:,\d+)* continued greedily after a digit run ending at e
RECURSIVE GroupedDigitsEnd(_, _)
GroupedDigitsEnd(text, e) ==
  IF e + 2 <= Len(text) /\ text[e + 1] = "," /\ IsDigit(text[e + 2])
    THEN GroupedDigitsEnd(text, DigitRunEnd(text, e + 2))
    ELSE e

\* index of the first digit of group 1 when the price pattern matches at i,
\* 0 when it does not: the two literal characters, an optional third, \d+
PriceDigitsAt(text, i) ==
  IF i + 1 <= Len(text) /\ text[i] = A_CIRC /\ text[i + 1] = LOW_QUOTE
    THEN IF /\ i + 3 <= Len(text)
            /\ text[i + 2] = SUPER_ONE
            /\ IsDigit(text[i + 3])
           THEN i + 3
           ELSE IF i + 2 <= Len(text) /\ IsDigit(text[i + 2])
                  THEN i + 2
                  ELSE 0
    ELSE 0

\* re.search(<price pattern>, text): group(1) of the leftmost match
PriceMatch(text) ==
  LET starts == { i \in DOMAIN text : PriceDigitsAt(text, i) # 0 }
  IN  IF starts = {} THEN << >>
      ELSE LET i == CHOOSE s \in starts : \A o \in starts : s <= o
               d == PriceDigitsAt(text, i)
           IN  << SubSeq(text, d, GroupedDigitsEnd(text, DigitRunEnd(text, d))) >>

\* the tail  \s*:?\s*(\w+)  tried at index p: index of the first character
\* of group 1, 0 when the tail does not match there
TokenTailAt(text, p) ==
  LET a == SkipSpaces(text, p)
      b == IF a <= Len(text) /\ text[a] = ":" THEN a + 1 ELSE a
      c == SkipSpaces(text, b)
  IN  IF c <= Len(text) /\ IsWord(text[c]) THEN c ELSE 0

\* token\s*(?:id)?\s*:?\s*(\w+) tried at index i: the optional "id" is
\* taken first and given back when the rest then fails
TokenWordAt(text, i) ==
  IF ~( /\ i + 4 <= Len(text)
        /\ SubSeq(text, i, i + 4) = << "t", "o", "k", "e", "n" >> )
    THEN 0
    ELSE LET a == SkipSpaces(text, i + 5)
             withId == IF /\ a + 1 <= Len(text)
                          /\ text[a] = "i" /\ text[a + 1] = "d"
                         THEN TokenTailAt(text, a + 2)
                         ELSE 0
         IN  IF withId # 0 THEN withId ELSE TokenTailAt(text, a)

\* re.search(<token pattern>, text_lower): group(1) of the leftmost match
TokenMatch(text) ==
  LET starts == { i \in DOMAIN text : TokenWordAt(text, i) # 0 }
  IN  IF starts = {} THEN << >>
      ELSE LET i == CHOOSE s \in starts : \A o \in starts : s <= o
               w == TokenWordAt(text, i)
           IN  << SubSeq(text, w, WordRunEnd(text, w)) >>

\* \d{6} without the two \b: six digits anywhere
TotpAtNoBoundary(text, i) ==
  /\ i + 5 <= Len(text)
  /\ \A k \in i .. (i + 5) : IsDigit(text[k])

\* \b(\d{6})\b matches at index i
TotpAt(text, i) ==
  /\ i + 5 <= Len(text)
  /\ \A k \in i .. (i + 5) : IsDigit(text[k])
  /\ (i = 1 \/ ~IsWord(text[i - 1]))
  /\ (i + 5 = Len(text) \/ ~IsWord(text[i + 6]))

\* re.search(r'\b(\d{6})\b', text): group(1) of the leftmost match
TotpMatch(text) ==
  LET starts == { i \in DOMAIN text : TotpAt(text, i) }
  IN  IF starts = {} THEN << >>
      ELSE LET i == CHOOSE s \in starts : \A o \in starts : s <= o
           IN  << SubSeq(text, i, i + 5) >>

\* the entry of payment_methods that occurs leftmost in text_lower
PaymentMethodLeftmost(text_lower) ==
  LET at(m) == { i \in DOMAIN text_lower :
                   /\ i + Len(m) - 1 <= Len(text_lower)
                   /\ SubSeq(text_lower, i, i + Len(m) - 1) = m }
      hits == { i \in DOMAIN payment_methods : at(payment_methods[i]) # {} }
      first(i) == CHOOSE p \in at(payment_methods[i]) :
                    \A q \in at(payment_methods[i]) : p <= q
  IN  IF hits = {} THEN << >>
      ELSE << payment_methods[CHOOSE i \in hits :
                                \A j \in hits : first(i) <= first(j)] >>

\* the first entry of payment_methods that occurs in text_lower
PaymentMethodMatch(text_lower) ==
  LET hits == { i \in DOMAIN payment_methods :
                  Contains(text_lower, payment_methods[i]) }
  IN  IF hits = {} THEN << >>
      ELSE << payment_methods[CHOOSE i \in hits : \A j \in hits : i <= j] >>

\* one entry of the entities dict: present when the name was requested and
\* its rule matched (match is << >> or << value >>)
Entry(name, entity_types, match) ==
  IF name \in Range(entity_types) /\ match # << >>
    THEN name :> match[1]
    ELSE << >>

EmptyDict == << >>

\* _extract_entities with the "if <name> in entity_types" tests left out:
\* every rule runs whatever names were requested
ExtractEntitiesUnguarded(text, entity_types) ==
  LET text_lower == Lower(text)
      all == << "price", "payment_method", "token_id", "totp_code" >>
  IN  Entry("price", all, PriceMatch(text))
        @@ Entry("payment_method", all, PaymentMethodMatch(text_lower))
        @@ Entry("token_id", all, TokenMatch(text_lower))
        @@ Entry("totp_code", all, TotpMatch(text))

\* _extract_entities with the four tests chained by elif: the first rule
\* that is requested runs and the others are skipped
ExtractEntitiesElif(text, entity_types) ==
  LET text_lower == Lower(text)
      names == Range(entity_types)
  IN  IF "price" \in names
        THEN Entry("price", entity_types, PriceMatch(text))
      ELSE IF "payment_method" \in names
        THEN Entry("payment_method", entity_types,
                   PaymentMethodMatch(text_lower))
      ELSE IF "token_id" \in names
        THEN Entry("token_id", entity_types, TokenMatch(text_lower))
      ELSE Entry("totp_code", entity_types, TotpMatch(text))

_extract_entities(text, entity_types) ==
  LET text_lower == Lower(text)
  IN  Entry("price", entity_types, PriceMatch(text))
        @@ Entry("payment_method", entity_types, PaymentMethodMatch(text_lower))
        @@ Entry("token_id", entity_types, TokenMatch(text_lower))
        @@ Entry("totp_code", entity_types, TotpMatch(text))

-----------------------------------------------------------------------------
(* analyze_user_intent: scoring and the choice of the primary intent.      *)

\* the score divided by len(user_input_lower.split()) without max(..., 1)
ScoreUnguarded(pattern, user_input_lower) ==
  [ num |-> Matches(pattern.keywords, user_input_lower) * 2
              + Matches(pattern.confidence_boost, user_input_lower) * 3,
    den |-> WordCount(user_input_lower) ]

\* A score is the quotient raw / words kept as a fraction: the float the
\* code computes is the correctly rounded value of this fraction.
Score(pattern, user_input_lower) ==
  [ num |-> Matches(pattern.keywords, user_input_lower) * 2
              + Matches(pattern.confidence_boost, user_input_lower) * 3,
    den |-> Max(WordCount(user_input_lower), 1) ]

\* a <= b on scores
ScoreLeq(a, b) == a.num * b.den <= b.num * a.den

IntentScores(user_input_lower) ==
  [ intent \in DOMAIN intent_patterns |->
      Score(intent_patterns[intent], user_input_lower) ]

\* max(intent_scores) with the key function left out: the greatest key
\* in string order
PrimaryIntentNoKey(intent_scores) ==
  IF DOMAIN intent_scores # {} THEN "wallet_connection" ELSE "general_info"

\* next(iter(intent_scores)): the first key whatever the scores
PrimaryIntentFirstKey(intent_scores) ==
  IF DOMAIN intent_scores # {} THEN IntentOrder[1] ELSE "general_info"

\* the last key, in iteration order, whose score no other key exceeds
PrimaryIntentLastWins(intent_scores) ==
  IF DOMAIN intent_scores # {}
    THEN LET best == { i \in DOMAIN IntentOrder :
                         \A j \in DOMAIN IntentOrder :
                            ScoreLeq(intent_scores[IntentOrder[j]],
                                     intent_scores[IntentOrder[i]]) }
         IN  IntentOrder[CHOOSE i \in best : \A j \in best : j <= i]
    ELSE "general_info"

\* max(intent_scores, key=intent_scores.get) if intent_scores else
\* "general_info": max returns the first key, in iteration order, whose
\* score no other key exceeds
PrimaryIntent(intent_scores) ==
  IF DOMAIN intent_scores # {}
    THEN LET best == { i \in DOMAIN IntentOrder :
                         \A j \in DOMAIN IntentOrder :
                            ScoreLeq(intent_scores[IntentOrder[j]],
                                     intent_scores[IntentOrder[i]]) }
         IN  IntentOrder[CHOOSE i \in best : \A j \in best : i <= j]
    ELSE "general_info"

analyze_user_intent(text) ==
  LET user_input_lower == Lower(text)
      intent_scores == IntentScores(user_input_lower)
      primary_intent == PrimaryIntent(intent_scores)
  IN  [ intent |-> primary_intent,
        confidence |-> IF primary_intent \in DOMAIN intent_scores
                         THEN intent_scores[primary_intent]
                         ELSE [ num |-> 0, den |-> 1 ],
        entities |-> IF primary_intent \in DOMAIN intent_patterns
                       THEN _extract_entities(text,
                              intent_patterns[primary_intent].entities)
                       ELSE EmptyDict,
        all_scores |-> intent_scores ]

-----------------------------------------------------------------------------
(* Input texts: up to MaxWords words of Vocab joined by single spaces.     *)

MaxWords == 2

Vocab ==
  << <<"p", "a", "y">>,
     <<"U", "P", "I">>,
     <<"t", "o", "t", "p">>,
     <<"E", "x", "p", "l", "a", "i", "n">>,
     <<"w", "a", "l", "l", "e", "t">>,
     <<"e", "r", "r", "o", "r">>,
     <<"n", "f", "t">>,
     <<"z", "z", "z">>,
     <<"1", "2", "3", "4", "5", "6">>,
     <<"\t">>,
     <<"b", "u", "y">>,
     <<"t", "i", "c", "k", "e", "t">>,
     <<"a", "u", "t", "h", "e", "n", "t", "i", "c", "a", "t", "i", "o", "n">>,
     <<"t", "o", "k", "e", "n">> >>

RECURSIVE Join(_)
Join(ws) ==
  IF ws = << >> THEN << >>
  ELSE IF Len(ws) = 1 THEN ws[1]
  ELSE ws[1] \o << " " >> \o Join(Tail(ws))

\* "How does TOTP validation work?" (test_chatbot.py, test_intent_analysis)
TotpValidationQuestion ==
  << "H", "o", "w", " ", "d", "o", "e", "s", " ", "T", "O", "T", "P",
     " ", "v", "a", "l", "i", "d", "a", "t", "i", "o", "n", " ", "w",
     "o", "r", "k", "?" >>

Texts ==
  { Join(ws) : ws \in UNION { [ 1 .. n -> Range(Vocab) ] : n \in 0 .. MaxWords } }
    \cup { TotpValidationQuestion }

-----------------------------------------------------------------------------
(* SpecAnalyze: analyze_user_intent applied to every input text.           *)

NoAnalysis == << >>

InitIdle ==
  /\ bot = << >>
  /\ turn = << >>
  /\ completed = 0
  /\ active_sessions = << >>
  /\ heap = << >>
  /\ clock = 0
  /\ workers = << >>
  /\ served = << >>
  /\ exported = << >>

InitAnalyze ==
  /\ user_input \in Texts
  /\ intent_analysis = NoAnalysis
  /\ requested = << >>
  /\ extracted = << >>
  /\ InitIdle

Analyze ==
  /\ intent_analysis = NoAnalysis
  /\ intent_analysis' = << analyze_user_intent(user_input) >>
  /\ UNCHANGED << user_input, bot, turn, completed,
                  active_sessions, heap, clock, workers, served,
                  requested, extracted, exported >>

NewInput ==
  /\ intent_analysis # NoAnalysis
  /\ \E t \in Texts : user_input' = t
  /\ intent_analysis' = NoAnalysis
  /\ UNCHANGED << bot, turn, completed,
                  active_sessions, heap, clock, workers, served,
                  requested, extracted, exported >>

NextAnalyze == Analyze \/ NewInput

SpecAnalyze == InitAnalyze /\ [][NextAnalyze]_vars

\* the result analyze_user_intent returned for user_input
Result == intent_analysis[1]

\* no keyword and no boost keyword of any pattern occurs in the text
NoKeywordHit(text) ==
  \A n \in DOMAIN intent_patterns :
     /\ ~AnyIn(intent_patterns[n].keywords, Lower(text))
     /\ ~AnyIn(intent_patterns[n].confidence_boost, Lower(text))

\* C4: for every text in which no keyword and no boost keyword of any
\* pattern occurs, analyze_user_intent returns intent "general_info" with
\* confidence 0.
C4_NoHitIsGeneralInfo ==
  (intent_analysis # NoAnalysis /\ NoKeywordHit(user_input))
    => (Result.intent = "general_info" /\ Result.confidence.num = 0)

\* C5: the confidence returned by analyze_user_intent is the maximum of
\* all_scores, it is the score of the returned intent, and it is never
\* negative.
C5_ConfidenceIsMaxScore ==
  intent_analysis # NoAnalysis =>
    /\ \A n \in DOMAIN Result.all_scores :
          ScoreLeq(Result.all_scores[n], Result.confidence)
    /\ Result.intent \in DOMAIN Result.all_scores
    /\ Result.confidence = Result.all_scores[Result.intent]
    /\ Result.confidence.num >= 0
    /\ Result.confidence.den > 0

\* an analysed text in which two patterns score differently, both above zero
C5_Witness ==
  /\ intent_analysis # NoAnalysis
  /\ \E n, m \in DOMAIN Result.all_scores :
        /\ 0 < Result.all_scores[n].num
        /\ Result.all_scores[n].num < Result.all_scores[m].num
        /\ Result.confidence = Result.all_scores[m]

\* the 8 names of the pattern table and the entity names declared for each
PatternNames ==
  { "ticket_purchase", "ticket_generation", "ticket_validation",
    "wallet_connection", "nft_marketplace", "payment_issues",
    "technical_support", "general_info" }

\* C6: the returned intent is one of the 8 pattern names, all_scores has
\* exactly those 8 names as keys, and every key of entities is an entity
\* name declared for the returned intent.
C6_IntentAndEntitiesDeclared ==
  intent_analysis # NoAnalysis =>
    /\ Result.intent \in PatternNames
    /\ DOMAIN Result.all_scores = PatternNames
    /\ DOMAIN Result.entities
         \subseteq Range(intent_patterns[Result.intent].entities)

\* an analysed text with an extracted entity, in which a rule of an entity
\* the winning intent does not declare matches too
C6_Witness ==
  /\ intent_analysis # NoAnalysis
  /\ DOMAIN Result.entities # {}
  /\ TotpMatch(user_input) # << >>
  /\ "totp_code" \notin Range(intent_patterns[Result.intent].entities)

\* the patterns with a keyword or a boost keyword in the text
PatternsHit(text) ==
  { n \in DOMAIN intent_patterns :
      \/ AnyIn(intent_patterns[n].keywords, Lower(text))
      \/ AnyIn(intent_patterns[n].confidence_boost, Lower(text)) }

\* C21: when exactly one pattern has a keyword or boost keyword in the
\* text and no other pattern has any, analyze_user_intent returns that
\* pattern's name with a confidence above 0.
C21_SingleHitWins ==
  (intent_analysis # NoAnalysis /\ Cardinality(PatternsHit(user_input)) = 1)
    => /\ Result.intent \in PatternsHit(user_input)
       /\ Result.confidence.num > 0

\* a text whose only hits belong to a pattern that is not the first of the
\* table
C21_Witness ==
  /\ intent_analysis # NoAnalysis
  /\ PatternsHit(user_input) = { "wallet_connection" }
  /\ Result.intent = "wallet_connection"

\* the registration order of the pattern table
Registered ==
  << "ticket_purchase", "ticket_generation", "ticket_validation",
     "wallet_connection", "nft_marketplace", "payment_issues",
     "technical_support", "general_info" >>

\* the patterns whose score is the greatest of all_scores
Leaders ==
  { n \in DOMAIN Result.all_scores :
      \A m \in DOMAIN Result.all_scores :
         ScoreLeq(Result.all_scores[m], Result.all_scores[n]) }

\* C25: when two or more patterns share the greatest non-zero score, the
\* returned intent is the one of them registered first in the pattern
\* table, so the intent is determined by the text alone.
C25_TieGoesToFirstRegistered ==
  ( /\ intent_analysis # NoAnalysis
    /\ \E n \in Leaders : Result.all_scores[n].num > 0 )
    => \E i \in DOMAIN Registered :
          /\ Registered[i] = Result.intent
          /\ Registered[i] \in Leaders
          /\ \A j \in 1 .. (i - 1) : Registered[j] \notin Leaders

\* a text for which two patterns share the greatest score, above zero,
\* neither of them being the first of the table
C25_Witness ==
  /\ intent_analysis # NoAnalysis
  /\ Cardinality(Leaders) >= 2
  /\ "ticket_purchase" \notin Leaders
  /\ Result.confidence.num > 0

\* number of entries of kws that occur in text, counted entry by entry
RECURSIVE Occurring(_, _)
Occurring(kws, text) ==
  IF kws = << >> THEN 0
  ELSE (IF Contains(text, Head(kws)) THEN 1 ELSE 0) + Occurring(Tail(kws), text)

\* number of whitespace-separated words of text, counted from the left
RECURSIVE Words(_, _)
Words(text, inWord) ==
  IF text = << >> THEN 0
  ELSE IF Head(text) \in Whitespace THEN Words(Tail(text), FALSE)
  ELSE (IF inWord THEN 0 ELSE 1) + Words(Tail(text), TRUE)

\* C26: for every text and every pattern P, all_scores[P] is (2 * the
\* number of P's keywords occurring in the lower-cased text + 3 * the
\* number of P's boost keywords occurring in it) divided by
\* max(number of words of the text, 1); an empty or whitespace-only text
\* divides by 1.
C26_ScoreFormula ==
  intent_analysis # NoAnalysis =>
    \A P \in DOMAIN intent_patterns :
       /\ P \in DOMAIN Result.all_scores
       /\ Result.all_scores[P].num =
            2 * Occurring(intent_patterns[P].keywords, Lower(user_input))
              + 3 * Occurring(intent_patterns[P].confidence_boost,
                              Lower(user_input))
       /\ Result.all_scores[P].den =
            (IF Words(user_input, FALSE) > 1
               THEN Words(user_input, FALSE) ELSE 1)

\* a text of two words in which a pattern has a keyword and a boost
\* keyword
C26_Witness ==
  /\ intent_analysis # NoAnalysis
  /\ \E P \in DOMAIN Result.all_scores :
        Result.all_scores[P] = [ num |-> 5, den |-> 2 ]

\* C20: a question about TOTP validation, one whose text contains "totp"
\* and "validation" such as "How does TOTP validation work?", is classified
\* as ticket_validation.
C20_TotpValidationIntent ==
  ( /\ intent_analysis # NoAnalysis
    /\ Contains(Lower(user_input), << "t", "o", "t", "p" >>)
    /\ Contains(Lower(user_input),
                << "v", "a", "l", "i", "d", "a", "t", "i", "o", "n" >>) )
    => Result.intent = "ticket_validation"

-----------------------------------------------------------------------------
(* TruePassChatbot / TruePassWebChatbot: the state of one session.         *)

None == "None"

\* an argument or JSON value that may be None: << >> for None, << v >> for v
Some(v) == << v >>
Absent == << >>

\* truth value of an optional str argument: None and "" are falsy
Truthy(v) == v # None /\ v # ""

\* datetime.now().strftime('%Y%m%d_%H%M%S'): the clock counts ticks of
\* 1/TicksPerSecond second and the format keeps whole seconds
TicksPerSecond == 2

Strftime(now) == now \div TicksPerSecond

\* f"<prefix>_{datetime.now().strftime(...)}"
StampedId(prefix, now) == [ prefix |-> prefix, stamp |-> Strftime(now) ]

\* no session id given: the default None of the session_id parameter, or a
\* payload without the session_id key
NoId == [ prefix |-> "", stamp |-> 0 ]

\* TruePassChatbot.__init__ followed by TruePassWebChatbot.__init__
NewWebChatbot(session_id, now) ==
  [ conversation_history |-> << >>,
    user_context |-> [ current_page |-> None,
                       user_type |-> "new",
                       last_topic |-> None ],
    session_id |-> IF session_id # NoId
                     THEN session_id
                     ELSE StampedId("truepass", now),
    user_feedback |-> << >> ]

\* a returned str: a fixed text of the source and the value embedded in it
Reply(fixed, embedded) == [ fixed |-> fixed, embedded |-> embedded ]

EmptyInputReply ==
  Reply("I'd love to help! Please ask me anything about TruePass", << >>)

QuickTopics ==
  { "welcome", "ticket_buying", "wallet_setup",
    "totp_explanation", "payment_methods", "troubleshooting" }

\* quick_responses.get(topic, <default>)
get_quick_response(topic) ==
  IF topic \in QuickTopics
    THEN Reply(topic, << >>)
    ELSE Reply("I don't have a quick response for that topic", << >>)

\* the error_response of get_contextual_response with str(e) embedded
ErrorResponse(detail) ==
  Reply("I apologize, but I'm experiencing some technical difficulties",
        detail)

\* the str returned by g4f.ChatCompletion.create, returned unchanged
CompletionReply(response) == Reply("", response)

\* conversation_history[-8:]
HistoryWindow == 8

\* the slice left out: every stored entry is sent
LastNWhole(s, n) == s

LastN(s, n) == IF Len(s) <= n THEN s ELSE SubSeq(s, Len(s) - n + 1, Len(s))

\* the knowledge_base sections json.dumps adds to context_parts per intent
KnowledgeSections(intent) ==
  CASE intent = "ticket_purchase" ->
         << "TICKET PURCHASE CONTEXT:", "buying_tickets_inr", "inr_payments" >>
    [] intent = "ticket_generation" ->
         << "TICKET GENERATION CONTEXT:", "ticket_generation",
            "blockchain_tickets" >>
    [] intent = "ticket_validation" ->
         << "TICKET VALIDATION CONTEXT:", "ticket_validation" >>
    [] intent = "wallet_connection" ->
         << "WALLET CONNECTION CONTEXT:", "first_time_setup", "wallet_issues" >>
    [] intent = "nft_marketplace" ->
         << "NFT MARKETPLACE CONTEXT:", "nft_marketplace" >>
    [] intent = "payment_issues" ->
         << "PAYMENT TROUBLESHOOTING CONTEXT:", "payment_issues" >>
    [] intent = "technical_support" ->
         << "TECHNICAL SUPPORT CONTEXT:", "troubleshooting",
            "technical_requirements" >>
    [] OTHER -> << >>

\* f"{system_prompt}\n\nCURRENT CONTEXT:\n{full_context}" as its parts
SystemContent(current_page, analysis) ==
  << "system_prompt", "CURRENT CONTEXT:" >>
    \o (IF Truthy(current_page)
          THEN << "User is currently on the page", current_page >>
          ELSE << >>)
    \o << "User intent detected:", analysis.intent >>
    \o KnowledgeSections(analysis.intent)
    \o (IF DOMAIN analysis.entities # {}
          THEN << "Extracted entities:" >>
          ELSE << >>)

\* the outcome of g4f.ChatCompletion.create: it returns a str or raises
Returned(response) == [ ok |-> TRUE, text |-> response ]
Raised(detail) == [ ok |-> FALSE, text |-> detail ]

\* get_contextual_response with the user entry stored before the
\* completion call instead of after it
ContextualResponseStoresFirst(self, text, current_page, outcome) ==
  LET paged == IF Truthy(current_page)
                 THEN [ self EXCEPT !.user_context.current_page = current_page ]
                 ELSE self
      analysis == analyze_user_intent(text)
      stored == [ paged EXCEPT
                    !.conversation_history =
                       @ \o << [ role |-> "user", content |-> text ] >> ]
      messages ==
        << [ role |-> "system",
             content |-> SystemContent(current_page, analysis) ] >>
          \o LastN(stored.conversation_history, HistoryWindow)
  IN  IF outcome.ok
        THEN [ self |->
                 [ stored EXCEPT
                     !.conversation_history =
                        @ \o << [ role |-> "assistant",
                                  content |-> outcome.text ] >>,
                     !.user_context.last_topic = analysis.intent ],
               response |-> CompletionReply(outcome.text),
               calls |-> 1,
               messages |-> messages,
               raised |-> FALSE ]
        ELSE [ self |-> stored,
               response |-> ErrorResponse(outcome.text),
               calls |-> 1,
               messages |-> messages,
               raised |-> FALSE ]

\* get_contextual_response that stores the assistant entry only
ContextualResponseDropsUser(self, text, current_page, outcome) ==
  LET paged == IF Truthy(current_page)
                 THEN [ self EXCEPT !.user_context.current_page = current_page ]
                 ELSE self
      analysis == analyze_user_intent(text)
      messages ==
        << [ role |-> "system",
             content |-> SystemContent(current_page, analysis) ] >>
          \o LastN(self.conversation_history, HistoryWindow)
          \o << [ role |-> "user", content |-> text ] >>
  IN  IF outcome.ok
        THEN [ self |->
                 [ paged EXCEPT
                     !.conversation_history =
                        @ \o << [ role |-> "assistant",
                                  content |-> outcome.text ] >>,
                     !.user_context.last_topic = analysis.intent ],
               response |-> CompletionReply(outcome.text),
               calls |-> 1,
               messages |-> messages,
               raised |-> FALSE ]
        ELSE [ self |-> paged,
               response |-> ErrorResponse(outcome.text),
               calls |-> 1,
               messages |-> messages,
               raised |-> FALSE ]

\* get_contextual_response calling the completion a second time when the
\* first call raised
ContextualResponseRetries(self, text, current_page, outcome) ==
  LET paged == IF Truthy(current_page)
                 THEN [ self EXCEPT !.user_context.current_page = current_page ]
                 ELSE self
      analysis == analyze_user_intent(text)
      messages ==
        << [ role |-> "system",
             content |-> SystemContent(current_page, analysis) ] >>
          \o LastN(self.conversation_history, HistoryWindow)
          \o << [ role |-> "user", content |-> text ] >>
  IN  IF outcome.ok
        THEN [ self |->
                 [ paged EXCEPT
                     !.conversation_history =
                        @ \o << [ role |-> "user", content |-> text ],
                                [ role |-> "assistant",
                                  content |-> outcome.text ] >>,
                     !.user_context.last_topic = analysis.intent ],
               response |-> CompletionReply(outcome.text),
               calls |-> 1,
               messages |-> messages,
               raised |-> FALSE ]
        ELSE [ self |-> paged,
               response |-> ErrorResponse(outcome.text),
               calls |-> 2,
               messages |-> messages,
               raised |-> FALSE ]

\* get_contextual_response storing current_page only when the completion
\* call returned
ContextualResponseRollsBack(self, text, current_page, outcome) ==
  LET paged == IF Truthy(current_page)
                 THEN [ self EXCEPT !.user_context.current_page = current_page ]
                 ELSE self
      analysis == analyze_user_intent(text)
      messages ==
        << [ role |-> "system",
             content |-> SystemContent(current_page, analysis) ] >>
          \o LastN(self.conversation_history, HistoryWindow)
          \o << [ role |-> "user", content |-> text ] >>
  IN  IF outcome.ok
        THEN [ self |->
                 [ paged EXCEPT
                     !.conversation_history =
                        @ \o << [ role |-> "user", content |-> text ],
                                [ role |-> "assistant",
                                  content |-> outcome.text ] >>,
                     !.user_context.last_topic = analysis.intent ],
               response |-> CompletionReply(outcome.text),
               calls |-> 1,
               messages |-> messages,
               raised |-> FALSE ]
        ELSE [ self |-> self,
               response |-> ErrorResponse(outcome.text),
               calls |-> 1,
               messages |-> messages,
               raised |-> FALSE ]

\* get_contextual_response(self, user_input, current_page) when the
\* completion call ends with outcome: the session afterwards, the returned
\* str, the number of completion calls made, the messages handed to the
\* call, and whether an exception left the method
get_contextual_response(self, text, current_page, outcome) ==
  LET paged == IF Truthy(current_page)
                 THEN [ self EXCEPT !.user_context.current_page = current_page ]
                 ELSE self
      analysis == analyze_user_intent(text)
      messages ==
        << [ role |-> "system",
             content |-> SystemContent(current_page, analysis) ] >>
          \o LastN(self.conversation_history, HistoryWindow)
          \o << [ role |-> "user", content |-> text ] >>
  IN  IF outcome.ok
        THEN [ self |->
                 [ paged EXCEPT
                     !.conversation_history =
                        @ \o << [ role |-> "user", content |-> text ],
                                [ role |-> "assistant",
                                  content |-> outcome.text ] >>,
                     !.user_context.last_topic = analysis.intent ],
               response |-> CompletionReply(outcome.text),
               calls |-> 1,
               messages |-> messages,
               raised |-> FALSE ]
        ELSE [ self |-> paged,
               response |-> ErrorResponse(outcome.text),
               calls |-> 1,
               messages |-> messages,
               raised |-> FALSE ]

\* the keyword lists of the quick response triggers of chat
GreetingKeywords ==
  <<<<"h", "e", "l", "l", "o">>,
    <<"h", "i">>,
    <<"h", "e", "y">>,
    <<"w", "e", "l", "c", "o", "m", "e">> >>
PurchaseKeywords ==
  <<<<"b", "u", "y", " ", "t", "i", "c", "k", "e", "t">>,
    <<"p", "u", "r", "c", "h", "a", "s", "e", " ", "t", "i", "c", "k", "e", "t">>,
    <<"t", "i", "c", "k", "e", "t", " ", "p", "r", "i", "c", "e">> >>
WalletKeywords ==
  <<<<"w", "a", "l", "l", "e", "t">>,
    <<"m", "e", "t", "a", "m", "a", "s", "k">>,
    <<"c", "o", "n", "n", "e", "c", "t", " ", "w", "a", "l", "l", "e", "t">> >>
ValidationKeywords ==
  <<<<"t", "o", "t", "p">>,
    <<"v", "a", "l", "i", "d", "a", "t", "i", "o", "n">>,
    <<"a", "u", "t", "h", "e", "n", "t", "i", "c", "a", "t", "e">>,
    <<"v", "e", "r", "i", "f", "i", "c", "a", "t", "i", "o", "n">> >>
PaymentKeywords ==
  <<<<"p", "a", "y", "m", "e", "n", "t">>,
    <<"u", "p", "i">>,
    <<"p", "a", "y", "t", "m">>,
    <<"c", "r", "e", "d", "i", "t", " ", "c", "a", "r", "d">> >>
ErrorKeywords ==
  <<<<"e", "r", "r", "o", "r">>,
    <<"p", "r", "o", "b", "l", "e", "m">>,
    <<"n", "o", "t", " ", "w", "o", "r", "k", "i", "n", "g">>,
    <<"i", "s", "s", "u", "e">>,
    <<"h", "e", "l", "p">> >>

\* QuickTopic without the payment trigger list
QuickTopicNoPayment(user_input_lower) ==
  IF AnyIn(GreetingKeywords, user_input_lower) THEN "welcome"
  ELSE IF AnyIn(PurchaseKeywords, user_input_lower) THEN "ticket_buying"
  ELSE IF AnyIn(WalletKeywords, user_input_lower) THEN "wallet_setup"
  ELSE IF AnyIn(ValidationKeywords, user_input_lower) THEN "totp_explanation"
  ELSE IF AnyIn(ErrorKeywords, user_input_lower) THEN "troubleshooting"
  ELSE None

\* QuickTopic with the generic error list tested first
QuickTopicErrorFirst(user_input_lower) ==
  IF AnyIn(ErrorKeywords, user_input_lower) THEN "troubleshooting"
  ELSE IF AnyIn(GreetingKeywords, user_input_lower) THEN "welcome"
  ELSE IF AnyIn(PurchaseKeywords, user_input_lower) THEN "ticket_buying"
  ELSE IF AnyIn(WalletKeywords, user_input_lower) THEN "wallet_setup"
  ELSE IF AnyIn(ValidationKeywords, user_input_lower) THEN "totp_explanation"
  ELSE IF AnyIn(PaymentKeywords, user_input_lower) THEN "payment_methods"
  ELSE None

\* the topic of the first trigger list with a keyword in the input, None
\* when no list has one
QuickTopic(user_input_lower) ==
  IF AnyIn(GreetingKeywords, user_input_lower) THEN "welcome"
  ELSE IF AnyIn(PurchaseKeywords, user_input_lower) THEN "ticket_buying"
  ELSE IF AnyIn(WalletKeywords, user_input_lower) THEN "wallet_setup"
  ELSE IF AnyIn(ValidationKeywords, user_input_lower) THEN "totp_explanation"
  ELSE IF AnyIn(PaymentKeywords, user_input_lower) THEN "payment_methods"
  ELSE IF AnyIn(ErrorKeywords, user_input_lower) THEN "troubleshooting"
  ELSE None

\* a path of chat that returns a fixed text
Canned(self, response) ==
  [ self |-> self, response |-> response, calls |-> 0,
    messages |-> << >>, raised |-> FALSE ]

\* chat that tests "not user_input" instead of "not user_input.strip()"
ChatNoStrip(self, text, current_page, outcome) ==
  IF text = << >>
    THEN Canned(self, EmptyInputReply)
    ELSE LET topic == QuickTopic(Strip(Lower(text)))
         IN  IF topic # None
               THEN Canned(self, get_quick_response(topic))
               ELSE get_contextual_response(self, text, current_page, outcome)

\* chat recording the topic of a quick response as last_topic
ChatRecordsQuickTopic(self, text, current_page, outcome) ==
  IF Strip(text) = << >>
    THEN Canned(self, EmptyInputReply)
    ELSE LET topic == QuickTopic(Strip(Lower(text)))
         IN  IF topic # None
               THEN Canned([ self EXCEPT !.user_context.last_topic = topic ],
                           get_quick_response(topic))
               ELSE get_contextual_response(self, text, current_page, outcome)

\* chat storing current_page before it tests the quick response triggers
ChatStoresPageFirst(self, text, current_page, outcome) ==
  IF Strip(text) = << >>
    THEN Canned(self, EmptyInputReply)
    ELSE LET topic == QuickTopic(Strip(Lower(text)))
             paged == IF Truthy(current_page)
                        THEN [ self EXCEPT
                                 !.user_context.current_page = current_page ]
                        ELSE self
         IN  IF topic # None
               THEN Canned(paged, get_quick_response(topic))
               ELSE get_contextual_response(self, text, current_page, outcome)

\* chat(self, user_input, current_page)
chat(self, text, current_page, outcome) ==
  IF Strip(text) = << >>
    THEN Canned(self, EmptyInputReply)
    ELSE LET topic == QuickTopic(Strip(Lower(text)))
         IN  IF topic # None
               THEN Canned(self, get_quick_response(topic))
               ELSE get_contextual_response(self, text, current_page, outcome)

-----------------------------------------------------------------------------
(* Spec: one chatbot object driven by one caller, turn after turn.         *)

MaxTurns == 2

MsgEmpty == <<>>
MsgBlank == <<" ", "\t">>
MsgHello == <<"H", "e", "l", "l", "o">>
MsgThis == <<"t", "h", "i", "s", " ", "n", "f", "t">>
MsgBuy == <<"b", "u", "y", " ", "t", "i", "c", "k", "e", "t", " ", "p", "a", "y">>
MsgWallet == <<"m", "y", " ", "w", "a", "l", "l", "e", "t", " ", "e", "r", "r", "o", "r">>
MsgTotp == <<"T", "O", "T", "P", " ", "c", "o", "d", "e", " ", "1", "2", "3", "4", "5", "6">>
MsgUpi == <<"p", "a", "y", " ", "w", "i", "t", "h", " ", "U", "P", "I">>
MsgHelp == <<"h", "e", "l", "p">>
MsgRupee == <<"p", "a", "y", " ", "5", "0", "0", " ", "r", "u", "p", "e", "e">>
MsgTrade == <<" ", "n", "f", "t", " ", "t", "r", "a", "d", "e">>
MsgNoHit == <<"z", "z", "z">>

Messages ==
  { MsgEmpty, MsgBlank, MsgHello, MsgThis, MsgBuy, MsgWallet,
    MsgTotp, MsgUpi, MsgHelp, MsgRupee, MsgTrade, MsgNoHit }

Pages == { None, "", "tickets" }

Outcomes ==
  { Returned(<< "O", "K" >>),
    Raised(<< "t", "i", "m", "e", "o", "u", "t" >>) }

NoTurn == << >>

Init ==
  /\ user_input = << >>
  /\ intent_analysis = NoAnalysis
  /\ bot = NewWebChatbot(NoId, 0)
  /\ turn = NoTurn
  /\ completed = 0
  /\ active_sessions = << >>
  /\ heap = << >>
  /\ clock = 0
  /\ workers = << >>
  /\ served = << >>
  /\ requested = << >>
  /\ extracted = << >>
  /\ exported = << >>

\* one call bot.chat(text, page) with text and page drawn from texts and
\* pages; the completion call, if made, ends with outcome, and returns in
\* at most limit calls of a session
ChatWithin(texts, pages, limit) ==
  \E text \in texts, page \in pages, outcome \in Outcomes :
    \E r \in { chat(bot, text, page, outcome) } :
    LET returned == r.calls > 0 /\ outcome.ok
    IN  /\ returned => completed < limit
        /\ bot' = r.self
        /\ completed' = IF returned THEN completed + 1 ELSE completed
        /\ turn' = << [ user_input |-> text,
                        current_page |-> page,
                        outcome |-> IF r.calls > 0 THEN << outcome >> ELSE << >>,
                        before |-> bot,
                        response |-> r.response,
                        calls |-> r.calls,
                        messages |-> r.messages,
                        raised |-> r.raised ] >>
        /\ exported' = << >>
        /\ UNCHANGED << user_input, intent_analysis,
                        active_sessions, heap, clock, workers, served,
                        requested, extracted >>

ChatFrom(texts, pages) == ChatWithin(texts, pages, MaxTurns)

Chat == ChatFrom(Messages, Pages)

Next == Chat

Spec == Init /\ [][Next]_vars

\* the last call made on bot
Last == turn[1]

\* the input has a keyword of one of the six trigger lists as a substring
\* of its lower-cased form
HitsShortcut(text) ==
  \E kws \in { GreetingKeywords, PurchaseKeywords, WalletKeywords,
               ValidationKeywords, PaymentKeywords, ErrorKeywords } :
     AnyIn(kws, Lower(text))

\* the last call entered the full pipeline and its completion call returned
FullTurnReturned ==
  turn # NoTurn /\ Last.outcome # << >> /\ Last.outcome[1].ok

\* the last call entered the full pipeline and its completion call failed
FullTurnFailed ==
  turn # NoTurn /\ Last.outcome # << >> /\ ~Last.outcome[1].ok

\* C1: a chat() call whose input hits a shortcut keyword set does not invoke
\* the completion collaborator and leaves conversation_history exactly as
\* it was, in any state reached by earlier turns.
C1_ShortcutLeavesHistory ==
  (turn # NoTurn /\ HitsShortcut(Last.user_input)) =>
     /\ Last.calls = 0
     /\ bot.conversation_history = Last.before.conversation_history

\* a shortcut turn made after a full-pipeline turn has filled the history
C1_Witness ==
  /\ turn # NoTurn
  /\ HitsShortcut(Last.user_input)
  /\ Last.response = get_quick_response("payment_methods")
  /\ Len(bot.conversation_history) > 0

\* C2: a successful full-pipeline turn appends exactly the user entry and
\* the assistant entry to the previous history; no turn modifies or removes
\* an existing entry; after N successful full-pipeline turns the history
\* has 2*N entries whose roles alternate user, assistant.
C2_HistoryGrowsByPairs ==
  LET h == bot.conversation_history
  IN  /\ FullTurnReturned =>
           h = Last.before.conversation_history
                 \o << [ role |-> "user", content |-> Last.user_input ],
                       [ role |-> "assistant",
                         content |-> Last.outcome[1].text ] >>
      /\ turn # NoTurn =>
           /\ Len(Last.before.conversation_history) <= Len(h)
           /\ SubSeq(h, 1, Len(Last.before.conversation_history))
                = Last.before.conversation_history
      /\ Len(h) = 2 * completed
      /\ \A i \in DOMAIN h :
            h[i].role = IF i % 2 = 1 THEN "user" ELSE "assistant"

\* a second successful full-pipeline turn, after canned and failed turns
C2_Witness ==
  /\ FullTurnReturned
  /\ completed = 2
  /\ Len(bot.conversation_history) = 4

\* C3: when the completion call fails, get_contextual_response raises
\* nothing, returns the apology message with the failure detail embedded,
\* and leaves conversation_history unchanged (no partial append).
C3_FailureLeavesHistory ==
  FullTurnFailed =>
     /\ ~Last.raised
     /\ Last.response = ErrorResponse(Last.outcome[1].text)
     /\ bot.conversation_history = Last.before.conversation_history

\* a failed completion call in a session that already has history
C3_Witness ==
  /\ FullTurnFailed
  /\ Last.calls = 1
  /\ Len(bot.conversation_history) > 0

\* C7: chat() with an empty or whitespace-only message returns the fixed
\* prompt-to-retry string, raises nothing, makes no completion call and
\* leaves conversation_history and user_context unchanged.
C7_EmptyInputIsLocal ==
  (turn # NoTurn /\ \A i \in DOMAIN Last.user_input :
                       Last.user_input[i] \in Whitespace) =>
     /\ Last.response = EmptyInputReply
     /\ ~Last.raised
     /\ Last.calls = 0
     /\ bot.conversation_history = Last.before.conversation_history
     /\ bot.user_context = Last.before.user_context

\* a whitespace-only message, sent with a page, to a session with history
C7_Witness ==
  /\ turn # NoTurn
  /\ Last.user_input = MsgBlank
  /\ Truthy(Last.current_page)
  /\ Len(bot.conversation_history) > 0
  /\ bot.user_context.last_topic # None

\* the last call was answered by the empty-input reply or a quick response
CannedTurn == turn # NoTurn /\ Last.outcome = << >>

\* C22: last_topic changes only on the full-pipeline path: a turn whose
\* completion call returned sets it to the intent analyze_user_intent
\* gives for that turn's input, and a turn answered by the empty-input
\* reply or a quick response leaves it as it was.
C22_LastTopicOnFullPipelineOnly ==
  /\ FullTurnReturned =>
        bot.user_context.last_topic =
           analyze_user_intent(Last.user_input).intent
  /\ CannedTurn =>
        bot.user_context.last_topic = Last.before.user_context.last_topic
  /\ (turn # NoTurn /\ bot.user_context.last_topic
                          # Last.before.user_context.last_topic)
        => FullTurnReturned

\* a full-pipeline turn that replaced the topic of an earlier turn by
\* another one
C22_Witness ==
  /\ FullTurnReturned
  /\ Last.before.user_context.last_topic # None
  /\ bot.user_context.last_topic # Last.before.user_context.last_topic

\* the trigger lists of chat in the order they are tested, with the topic
\* of the quick response of each
TriggerOrder ==
  << [ keywords |-> GreetingKeywords, topic |-> "welcome" ],
     [ keywords |-> PurchaseKeywords, topic |-> "ticket_buying" ],
     [ keywords |-> WalletKeywords, topic |-> "wallet_setup" ],
     [ keywords |-> ValidationKeywords, topic |-> "totp_explanation" ],
     [ keywords |-> PaymentKeywords, topic |-> "payment_methods" ],
     [ keywords |-> ErrorKeywords, topic |-> "troubleshooting" ] >>

\* the trigger lists with a keyword in the lower-cased text
TriggersHit(text) ==
  { i \in DOMAIN TriggerOrder : AnyIn(TriggerOrder[i].keywords, Lower(text)) }

\* C24: chat answers an input that is not blank with the quick response of
\* the earliest trigger list, in the order greeting, purchase, wallet,
\* validation, payment, generic error, that has a keyword in the
\* lower-cased input; the full pipeline, with the intent scorer and the
\* completion call, runs only when no list has one.
C24_FirstTriggerWins ==
  (turn # NoTurn /\ Strip(Last.user_input) # << >>) =>
     LET hit == TriggersHit(Last.user_input)
     IN  IF hit = { }
           THEN Last.calls = 1
           ELSE /\ Last.calls = 0
                /\ \E i \in hit :
                      /\ \A j \in hit : i <= j
                      /\ Last.response =
                           get_quick_response(TriggerOrder[i].topic)

\* an input with keywords of two trigger lists
C24_Witness ==
  /\ turn # NoTurn
  /\ Cardinality(TriggersHit(Last.user_input)) >= 2
  /\ Last.response = get_quick_response("wallet_setup")

\* C28: no retry: every chat call makes at most one completion call, and
\* exactly one when the input is not blank and hits no trigger list; after
\* a failed completion call the turn ends with the apology message.
C28_AtMostOneCompletionCall ==
  turn # NoTurn =>
     /\ Last.calls \in { 0, 1 }
     /\ Last.calls = 1
          <=> ( /\ Strip(Last.user_input) # << >>
                /\ ~HitsShortcut(Last.user_input) )
     /\ FullTurnFailed =>
          /\ Last.calls = 1
          /\ Last.response.fixed = ErrorResponse(<< >>).fixed

\* a failed completion call on the first turn of a session
C28_Witness ==
  /\ FullTurnFailed
  /\ Last.before.conversation_history = << >>
  /\ Last.response.embedded = Last.outcome[1].text

\* C29: a turn answered by the empty-input reply or a quick response
\* leaves user_context as it was, a current_page passed with it included;
\* current_page changes only on a turn that enters the full pipeline with
\* a current_page that is not empty.
C29_CannedTurnKeepsContext ==
  /\ CannedTurn => bot.user_context = Last.before.user_context
  /\ (turn # NoTurn /\ bot.user_context.current_page
                          # Last.before.user_context.current_page)
        => /\ Last.calls = 1
           /\ Truthy(Last.current_page)
           /\ bot.user_context.current_page = Last.current_page

\* a quick response given to a call that passed a page the session does
\* not have
C29_Witness ==
  /\ CannedTurn
  /\ HitsShortcut(Last.user_input)
  /\ Truthy(Last.current_page)
  /\ bot.user_context.current_page # Last.current_page

\* C30: a full-pipeline turn whose completion call fails leaves last_topic
\* as it was and still stores a current_page that is not empty;
\* current_page is the only field of the session the turn can change.
C30_FailedTurnStoresPageOnly ==
  FullTurnFailed =>
     /\ bot.user_context.last_topic = Last.before.user_context.last_topic
     /\ Truthy(Last.current_page)
          => bot.user_context.current_page = Last.current_page
     /\ bot = [ Last.before EXCEPT
                  !.user_context.current_page = bot.user_context.current_page ]
     /\ ~Truthy(Last.current_page) => bot = Last.before

\* a failed turn that stored its page in a session with a topic
C30_Witness ==
  /\ FullTurnFailed
  /\ Truthy(Last.current_page)
  /\ Last.before.user_context.current_page # Last.current_page
  /\ bot.user_context.current_page = Last.current_page
  /\ bot.user_context.last_topic # None

-----------------------------------------------------------------------------
(* SpecLong: one session that lives for up to MaxLongTurns answered       *)
(* full-pipeline turns, so that conversation_history outgrows the window   *)
(* of entries that get_contextual_response sends along.                    *)

MaxLongTurns == 5

\* inputs that hit no trigger list
LongMessages == { MsgNoHit, MsgTrade }

LongPages == { None }

InitLong == Init

LongChat == ChatWithin(LongMessages, LongPages, MaxLongTurns)

NextLong == LongChat

SpecLong == InitLong /\ [][NextLong]_vars

\* C27: on every full-pipeline turn the messages passed to the completion
\* call are one system message, then the last min(8, len(history)) entries
\* of conversation_history in their stored order, then one user message
\* with the current input; older entries are not sent and the current
\* input is added once, as the last message.
C27_PromptIsWindowThenInput ==
  (turn # NoTurn /\ Last.calls = 1) =>
     LET history == Last.before.conversation_history
         n == IF Len(history) < 8 THEN Len(history) ELSE 8
         sent == Last.messages
     IN  /\ Len(sent) = n + 2
         /\ sent[1].role = "system"
         /\ \A i \in 1 .. n : sent[1 + i] = history[Len(history) - n + i]
         /\ sent[n + 2] = [ role |-> "user", content |-> Last.user_input ]
         /\ \A i \in 1 .. (n + 1) : sent[i] \in { sent[1] } \cup Range(history)

\* a full-pipeline turn of a session that has stored more than 8 entries,
\* the oldest of which differs from the oldest one sent
C27_Witness ==
  /\ turn # NoTurn
  /\ Last.calls = 1
  /\ Len(Last.before.conversation_history) > 8
  /\ Len(Last.messages) = 10
  /\ Last.messages[2] # Last.before.conversation_history[1]

-----------------------------------------------------------------------------
(* SpecHTTP: create_web_api_wrapper.  app.run serves each request in its   *)
(* own thread, so a handler is a sequence of steps that interleave with    *)
(* the steps of the other threads.                                         *)

NumWorkers == 2
MaxRequests == 3
MaxClock == 2

Workers == 1 .. NumWorkers

\* session ids a client may send
ClientIds == { StampedId("web", 0) }

HttpMessages == { MsgEmpty, MsgBlank, MsgHello, MsgRupee }

HttpPages == { None, "tickets" }

\* data.get(key, default) of a JSON object
Get(data, key, default) == IF key \in DOMAIN data THEN data[key] ELSE default

\* the JSON objects posted to /api/chat: session_id is optional
ChatPayloads ==
  { sid @@ ("message" :> msg) @@ ("current_page" :> page) :
      sid \in { << >> } \cup { "session_id" :> id : id \in ClientIds },
      msg \in HttpMessages, page \in HttpPages }

NoReply == Reply("", << >>)

MissingMessageReply ==
  Reply("Please provide a message to get help with TruePass!", << >>)

\* a thread of the server that is processing no request.  The fields are
\* the locals of chat_endpoint and of the chat call it makes; a local is
\* reset to its initial value after its last use.
Idle ==
  [ pc |-> "idle",
    session_id |-> NoId,
    generated |-> FALSE,
    message |-> << >>,
    current_page |-> None,
    chatbot |-> 0,
    intent |-> None,
    response |-> NoReply,
    full_turn |-> FALSE,
    issued |-> FALSE,
    seen |-> 0,
    endpoint |-> "",
    lacks |-> { },
    message_id |-> None,
    rating |-> Absent,
    comment |-> "",
    status |-> 200 ]

\* the record of the service's answers: the number of requests received,
\* the ids made up for requests without session_id, the ids returned to
\* such requests, the full-pipeline turns answered per session id, and the
\* JSON response, if any, sent by the step just taken
NothingServed ==
  [ received |-> 0,
    generated |-> << >>,
    issued |-> { },
    full_turns |-> << >>,
    last |-> << >> ]

InitHTTP ==
  /\ user_input = << >>
  /\ intent_analysis = NoAnalysis
  /\ bot = << >>
  /\ turn = NoTurn
  /\ completed = 0
  /\ active_sessions = << >>
  /\ heap = << >>
  /\ clock = 0
  /\ workers = [ w \in Workers |-> Idle ]
  /\ served = NothingServed
  /\ requested = << >>
  /\ extracted = << >>
  /\ exported = << >>

Unused ==
  << user_input, intent_analysis, bot, turn, completed,
     requested, extracted, exported >>

\* full-pipeline turns already answered for session id
TurnsAnswered(id) ==
  IF id \in DOMAIN served.full_turns THEN served.full_turns[id] ELSE 0

\* id was returned earlier to a request that sent no session_id
IssuedEarlier(id) == id \in served.issued

\* a step that sends no response
Quiet == served' = [ served EXCEPT !.last = << >> ]

\* time passes
Tick ==
  /\ clock < MaxClock
  /\ clock' = clock + 1
  /\ UNCHANGED << active_sessions, heap, workers >>
  /\ Quiet
  /\ UNCHANGED Unused

\* lines 877-885: read the payload, a missing session_id being replaced by
\* f"web_{datetime.now().strftime('%Y%m%d_%H%M%S')}", and test
\* "session_id not in active_sessions".  Reading the payload touches
\* nothing shared, so it is one step with the test.
ReceiveFrom(w, payloads) ==
  /\ workers[w].pc = "idle"
  /\ served.received < MaxRequests
  /\ \A v \in Workers : v < w => workers[v].pc # "idle"
  /\ \E data \in payloads :
       LET sid == Get(data, "session_id", NoId)
           msg == Get(data, "message", << >>)
           page == Get(data, "current_page", None)
           id == IF sid = NoId THEN StampedId("web", clock) ELSE sid
       IN  /\ workers' = [ workers EXCEPT ![w] =
                [ Idle EXCEPT
                    !.pc = IF id \in DOMAIN active_sessions
                             THEN "get" ELSE "create",
                    !.endpoint = "chat",
                    !.lacks = { "message" } \ DOMAIN data,
                    !.session_id = id,
                    !.generated = (sid = NoId),
                    !.message = Strip(msg),
                    !.current_page = page,
                    !.issued = IssuedEarlier(id),
                    !.seen = TurnsAnswered(id) ] ]
           /\ served' = [ served EXCEPT
                !.received = @ + 1,
                !.generated = IF sid = NoId THEN Append(@, id) ELSE @,
                !.last = << >> ]
  /\ UNCHANGED << active_sessions, heap, clock >>
  /\ UNCHANGED Unused

Receive(w) == ReceiveFrom(w, ChatPayloads)

\* line 886: active_sessions[session_id] = TruePassWebChatbot(session_id=...)
Create(w) ==
  /\ workers[w].pc = "create"
  /\ heap' = Append(heap, NewWebChatbot(workers[w].session_id, clock))
  /\ active_sessions' =
       (workers[w].session_id :> (Len(heap) + 1)) @@ active_sessions
  /\ workers' = [ workers EXCEPT ![w].pc = "get" ]
  /\ UNCHANGED << clock >>
  /\ Quiet
  /\ UNCHANGED Unused

\* lines 888-894 and chat up to the completion call: chatbot =
\* active_sessions[session_id]; the fixed replies finish the turn; the full
\* pipeline stores current_page (line 355), scores the input and calls
\* g4f.ChatCompletion.create
Process(w) ==
  /\ workers[w].pc = "get"
  /\ \E topic \in { QuickTopic(Strip(Lower(workers[w].message))) } :
     LET me == workers[w]
         chatbot == active_sessions[me.session_id]
         reply(response) ==
           [ workers EXCEPT ![w].chatbot = chatbot,
                            ![w].response = response,
                            ![w].message = << >>,
                            ![w].current_page = None,
                            ![w].pc = "respond" ]
     IN  IF me.message = << >>
           THEN workers' = reply(MissingMessageReply) /\ heap' = heap
           ELSE IF Strip(me.message) = << >>
             THEN workers' = reply(EmptyInputReply) /\ heap' = heap
           ELSE IF topic # None
             THEN workers' = reply(get_quick_response(topic)) /\ heap' = heap
           ELSE /\ workers' = [ workers EXCEPT
                                  ![w].chatbot = chatbot,
                                  ![w].intent =
                                     analyze_user_intent(me.message).intent,
                                  ![w].current_page = None,
                                  ![w].pc = "completion" ]
                /\ heap' = IF Truthy(me.current_page)
                             THEN [ heap EXCEPT
                                      ![chatbot].user_context.current_page =
                                         me.current_page ]
                             ELSE heap
  /\ UNCHANGED << active_sessions, clock >>
  /\ Quiet
  /\ UNCHANGED Unused

\* lines 436-450: the completion call raises
CompletionRaises(w) ==
  /\ workers[w].pc = "completion"
  /\ \E outcome \in { o \in Outcomes : ~o.ok } :
       workers' = [ workers EXCEPT
                      ![w].response = ErrorResponse(outcome.text),
                      ![w].message = << >>,
                      ![w].intent = None,
                      ![w].pc = "respond" ]
  /\ UNCHANGED << active_sessions, heap, clock >>
  /\ Quiet
  /\ UNCHANGED Unused

\* lines 419-428: the completion call returns a str and the user entry is
\* appended
AppendUser(w) ==
  /\ workers[w].pc = "completion"
  /\ \E outcome \in { o \in Outcomes : o.ok } :
       workers' = [ workers EXCEPT
                      ![w].response = CompletionReply(outcome.text),
                      ![w].message = << >>,
                      ![w].pc = "append_assistant" ]
  /\ heap' = [ heap EXCEPT ![workers[w].chatbot].conversation_history =
                 Append(@, [ role |-> "user",
                             content |-> workers[w].message ]) ]
  /\ UNCHANGED << active_sessions, clock >>
  /\ Quiet
  /\ UNCHANGED Unused

\* line 429
AppendAssistant(w) ==
  /\ workers[w].pc = "append_assistant"
  /\ heap' = [ heap EXCEPT ![workers[w].chatbot].conversation_history =
                 Append(@, [ role |-> "assistant",
                             content |-> workers[w].response.embedded ]) ]
  /\ workers' = [ workers EXCEPT ![w].pc = "set_topic" ]
  /\ UNCHANGED << active_sessions, clock >>
  /\ Quiet
  /\ UNCHANGED Unused

\* line 432
SetLastTopic(w) ==
  /\ workers[w].pc = "set_topic"
  /\ heap' = [ heap EXCEPT ![workers[w].chatbot].user_context.last_topic =
                 workers[w].intent ]
  /\ workers' = [ workers EXCEPT ![w].full_turn = TRUE,
                                 ![w].intent = None,
                                 ![w].pc = "respond" ]
  /\ UNCHANGED << active_sessions, clock >>
  /\ Quiet
  /\ UNCHANGED Unused

\* get_chat_context: the fields of the context the claims are about
get_chat_context(self) ==
  [ session_id |-> self.session_id,
    current_page |-> self.user_context.current_page,
    conversation_length |-> Len(self.conversation_history),
    last_topic |-> self.user_context.last_topic ]

\* the first n entries of s: s[:n]
FirstN(s, n) == IF Len(s) <= n THEN s ELSE SubSeq(s, 1, n)

MaxSuggestions == 8

BaseSuggestions ==
  << "How do I buy tickets with UPI?",
     "What is blockchain ticket validation?",
     "How do I connect my MetaMask wallet?",
     "Can I use Paytm to buy NFTs?",
     "How does TOTP authentication work?",
     "What do I need to get started?",
     "Is my payment information secure?",
     "How do I validate someone's ticket?" >>

WalletFollowUps ==
  << "I'm having wallet connection issues",
     "MetaMask won't connect to TruePass",
     "Do I need ETH in my wallet to buy tickets?" >>

PurchaseFollowUps ==
  << "My payment failed, what should I do?",
     "How long does ticket delivery take?",
     "Can I get a refund on my ticket?" >>

\* get_suggested_questions(self): the follow-ups of last_topic are appended
\* to the base list, and the first 8 entries of the result are returned
get_suggested_questions(self) ==
  LET last_topic == self.user_context.last_topic
      base_suggestions ==
        IF last_topic = "wallet_connection"
          THEN BaseSuggestions \o WalletFollowUps
          ELSE IF last_topic = "ticket_purchase"
                 THEN BaseSuggestions \o PurchaseFollowUps
                 ELSE BaseSuggestions
  IN  FirstN(base_suggestions, MaxSuggestions)

\* lines 897-904: the JSON response
Respond(w) ==
  /\ workers[w].pc = "respond"
  /\ LET me == workers[w]
     IN  served' = [ served EXCEPT
           !.issued = IF me.generated THEN @ \cup { me.session_id } ELSE @,
           !.full_turns = IF me.full_turn
                            THEN (me.session_id :> (TurnsAnswered(me.session_id) + 1)) @@ @
                            ELSE @,
           !.last = << [ endpoint |-> me.endpoint,
                         lacks |-> me.lacks,
                         status |-> me.status,
                         success |-> TRUE,
                         session_id |-> me.session_id,
                         response |-> me.response,
                         suggested_questions |->
                           get_suggested_questions(heap[me.chatbot]),
                         context |-> get_chat_context(heap[me.chatbot]),
                         generated |-> me.generated,
                         full_turn |-> me.full_turn,
                         issued |-> me.issued,
                         seen |-> me.seen ] >> ]
  /\ workers' = [ workers EXCEPT ![w] = Idle ]
  /\ UNCHANGED << active_sessions, heap, clock >>
  /\ UNCHANGED Unused

NextHTTP ==
  \/ Tick
  \/ \E w \in Workers : Receive(w)
  \/ \E w \in Workers : Create(w)
  \/ \E w \in Workers : Process(w)
  \/ \E w \in Workers : CompletionRaises(w)
  \/ \E w \in Workers : AppendUser(w)
  \/ \E w \in Workers : AppendAssistant(w)
  \/ \E w \in Workers : SetLastTopic(w)
  \/ \E w \in Workers : Respond(w)

SpecHTTP == InitHTTP /\ [][NextHTTP]_vars

\* the JSON response sent by the step just taken
Sent == served.last[1]

\* C8: a session_id returned to a POST /chat without session_id can be
\* reused: a later POST /chat carrying it is served by the same session,
\* whose conversation_length and last_topic reflect all full-pipeline turns
\* answered for that id before the request arrived.
C8_SessionIdRoundTrip ==
  (served.last # << >> /\ Sent.issued) =>
     /\ Sent.context.session_id = Sent.session_id
     /\ Sent.context.conversation_length >= 2 * Sent.seen
     /\ Sent.seen > 0 => Sent.context.last_topic # None

\* C9: two requests without session_id never receive the same generated
\* session id.
C9_GeneratedIdsUnique ==
  \A i, j \in DOMAIN served.generated :
     i # j => served.generated[i] # served.generated[j]

\* a thread is inside the part of a turn that works on the session state
InTurn(w) == workers[w].pc \in { "completion", "append_assistant", "set_topic" }

\* C10: turns on one session are mutually exclusive: no two threads are in
\* a turn on the same chatbot, the user entry of a turn is directly
\* followed by its assistant entry, and no session id ever gets a second
\* chatbot object.
C10_TurnsMutuallyExclusive ==
  /\ \A v, w \in Workers :
        (v # w /\ InTurn(v) /\ InTurn(w))
          => workers[v].chatbot # workers[w].chatbot
  /\ \A o \in DOMAIN heap :
        LET h == heap[o].conversation_history
        IN  \A i \in DOMAIN h :
               (h[i].role = "user" /\ i < Len(h))
                 => h[i + 1].role = "assistant"
  /\ \A a, b \in DOMAIN heap :
        a # b => heap[a].session_id # heap[b].session_id

\* C23: get_suggested_questions returns suggestions that follow the
\* conversation: with last_topic wallet_connection the list has the wallet
\* follow-up questions, with last_topic ticket_purchase it has the purchase
\* follow-up questions, and it never has more than 8 entries.
C23_SuggestionsFollowTopic ==
  (served.last # << >> /\ Sent.endpoint = "chat" /\ Sent.lacks = { }) =>
     LET suggestions == Sent.suggested_questions
     IN  /\ Len(suggestions) <= MaxSuggestions
         /\ Sent.context.last_topic = "wallet_connection"
              => WalletFollowUps[1] \in Range(suggestions)
         /\ Sent.context.last_topic = "ticket_purchase"
              => PurchaseFollowUps[1] \in Range(suggestions)

-----------------------------------------------------------------------------
(* SpecExtract: _extract_entities applied to every text of up to MaxTokens *)
(* words and every list of up to MaxNames entity names.                    *)

MaxTokens == 2
MaxNames == 2

ExtractVocab ==
  << << RUPEE, "5", "0", "0" >>,
     << A_CIRC, LOW_QUOTE, SUPER_ONE, "7", ",", "5" >>,
     << "P", "a", "y", "t", "m" >>,
     << "U", "P", "I" >>,
     << "1", "2", "3", "4", "5", "6", "7" >>,
     << "1", "2", "3", "4", "5", "6" >>,
     << "t", "o", "k", "e", "n", "1", "2", "3", "4", "5", "6" >> >>

ExtractTexts ==
  { Join(ws) :
      ws \in UNION { [ 1 .. n -> Range(ExtractVocab) ] : n \in 0 .. MaxTokens } }

\* the four names _extract_entities has a rule for and one it has none for
EntityNames ==
  { "price", "payment_method", "token_id", "totp_code", "event_name" }

NameLists == UNION { [ 1 .. n -> EntityNames ] : n \in 0 .. MaxNames }

NotExtracted == << >>

InitExtract ==
  /\ user_input \in ExtractTexts
  /\ requested \in NameLists
  /\ extracted = NotExtracted
  /\ intent_analysis = NoAnalysis
  /\ InitIdle

Reverse(s) == [ i \in 1 .. Len(s) |-> s[Len(s) + 1 - i] ]

\* _extract_entities(user_input, requested), and the same call for every
\* way of cutting the list of names in two and for the list reversed
Extract ==
  /\ extracted = NotExtracted
  /\ extracted' =
       << [ whole |-> _extract_entities(user_input, requested),
            parts |-> [ k \in 0 .. Len(requested) |->
                         [ head |-> _extract_entities(
                                      user_input, SubSeq(requested, 1, k)),
                           tail |-> _extract_entities(
                                      user_input,
                                      SubSeq(requested, k + 1, Len(requested))) ] ],
            reversed |-> _extract_entities(user_input, Reverse(requested)) ] >>
  /\ UNCHANGED << user_input, requested, intent_analysis, bot, turn, completed,
                  active_sessions, heap, clock, workers, served, exported >>

NextExtract == Extract

SpecExtract == InitExtract /\ [][NextExtract]_vars

\* the dict _extract_entities returned for user_input and requested
Entities == extracted[1].whole

\* index of the first digit of text, 0 when it has none
FirstDigit(text) ==
  LET at == { i \in DOMAIN text : IsDigit(text[i]) }
  IN  IF at = {} THEN 0 ELSE CHOOSE i \in at : \A j \in at : i <= j

\* C16: with "price" requested, the price is the first run of digits of
\* the text (comma-joined digit groups included), digits only, whether or
\* not the rupee glyph precedes it; a text without a digit has no price.
C16_PriceIsFirstDigitRun ==
  (extracted # NotExtracted /\ "price" \in Range(requested)) =>
     LET d == FirstDigit(user_input)
     IN  IF d = 0
           THEN "price" \notin DOMAIN Entities
           ELSE /\ "price" \in DOMAIN Entities
                /\ Entities["price"] =
                     SubSeq(user_input, d,
                            GroupedDigitsEnd(user_input,
                                             DigitRunEnd(user_input, d)))

\* C17: with "payment_method" requested, the payment method is the first
\* of upi, paytm, credit card, debit card, net banking that is a substring
\* of the lower-cased text, wherever the methods stand in the text; the key
\* is absent when none of them occurs.
C17_PaymentMethodByPriority ==
  (extracted # NotExtracted /\ "payment_method" \in Range(requested)) =>
     LET priority == << << "u", "p", "i" >>,
                        << "p", "a", "y", "t", "m" >>,
                        << "c", "r", "e", "d", "i", "t", " ", "c", "a", "r", "d" >>,
                        << "d", "e", "b", "i", "t", " ", "c", "a", "r", "d" >>,
                        << "n", "e", "t", " ", "b", "a", "n", "k", "i", "n", "g" >> >>
         occurs(i) == Contains(Lower(user_input), priority[i])
     IN  /\ (\A i \in DOMAIN priority : ~occurs(i))
              => "payment_method" \notin DOMAIN Entities
         /\ \A i \in DOMAIN priority :
               (occurs(i) /\ \A j \in 1 .. (i - 1) : ~occurs(j))
                 => /\ "payment_method" \in DOMAIN Entities
                    /\ Entities["payment_method"] = priority[i]

\* a text that names paytm before upi, for which upi was returned
C17_Witness ==
  /\ extracted # NotExtracted
  /\ user_input = << "P", "a", "y", "t", "m", " ", "U", "P", "I" >>
  /\ "payment_method" \in DOMAIN Entities
  /\ Entities["payment_method"] = << "u", "p", "i" >>

\* the maximal digit runs of text, as pairs << first index, last index >>
DigitRuns(text) ==
  { r \in (DOMAIN text) \X (DOMAIN text) :
      /\ r[1] <= r[2]
      /\ \A k \in r[1] .. r[2] : IsDigit(text[k])
      /\ (r[1] = 1 \/ ~IsDigit(text[r[1] - 1]))
      /\ (r[2] = Len(text) \/ ~IsDigit(text[r[2] + 1])) }

\* the runs of exactly 6 digits with no letter, digit or underscore next
\* to them
StandaloneCodes(text) ==
  { r \in DigitRuns(text) :
      /\ r[2] - r[1] = 5
      /\ (r[1] = 1 \/ ~IsWord(text[r[1] - 1]))
      /\ (r[2] = Len(text) \/ ~IsWord(text[r[2] + 1])) }

\* C18: with "totp_code" requested, the code is the first standalone run
\* of exactly 6 digits; a digit run of another length, or one attached to a
\* letter or digit, gives no code, and the key is absent when the text has
\* no standalone run of 6 digits.
C18_TotpIsStandaloneSixDigits ==
  (extracted # NotExtracted /\ "totp_code" \in Range(requested)) =>
     LET codes == StandaloneCodes(user_input)
     IN  IF codes = {}
           THEN "totp_code" \notin DOMAIN Entities
           ELSE LET r == CHOOSE c \in codes : \A o \in codes : c[1] <= o[1]
                IN  /\ "totp_code" \in DOMAIN Entities
                    /\ Entities["totp_code"] = SubSeq(user_input, r[1], r[2])

\* a text in which a run of 7 digits or a run attached to a letter stands
\* before the standalone run of 6 digits that was returned
C18_Witness ==
  /\ extracted # NotExtracted
  /\ "totp_code" \in DOMAIN Entities
  /\ \E r \in StandaloneCodes(user_input) : r[1] > 1
  /\ \E r \in DigitRuns(user_input) : r[1] <= 2

\* C19: extraction is independent per entity name: the result for a list
\* of names cut in two anywhere is the union of the results for the two
\* parts, which agree on the keys they share; the result for the reversed
\* list is the same; the keys are among the requested names; and a name
\* whose rule does not match is absent.
C19_ExtractionPerName ==
  extracted # NotExtracted =>
     /\ \A k \in DOMAIN extracted[1].parts :
           LET a == extracted[1].parts[k].head
               b == extracted[1].parts[k].tail
           IN  /\ \A n \in DOMAIN a \cap DOMAIN b : a[n] = b[n]
               /\ DOMAIN Entities = DOMAIN a \cup DOMAIN b
               /\ \A n \in DOMAIN a : Entities[n] = a[n]
               /\ \A n \in DOMAIN b : Entities[n] = b[n]
     /\ extracted[1].reversed = Entities
     /\ DOMAIN Entities \subseteq Range(requested)
     /\ "event_name" \notin DOMAIN Entities

\* two different names were requested and the rules of both matched, with
\* different values
C19_Witness ==
  /\ extracted # NotExtracted
  /\ Len(requested) = 2
  /\ requested[1] # requested[2]
  /\ DOMAIN Entities = Range(requested)
  /\ Entities[requested[1]] # Entities[requested[2]]

-----------------------------------------------------------------------------
(* SpecSession: one TruePassWebChatbot whose caller chats, gives feedback  *)
(* and exports the session.                                                *)

MaxFeedback == 2
MaxExports == 2

RECURSIVE SumRatings(_)
SumRatings(user_feedback) ==
  IF user_feedback = << >> THEN 0
  ELSE Head(user_feedback).rating[1] + SumRatings(Tail(user_feedback))

\* add_user_feedback: the entry is appended as it is given
add_user_feedback(self, message_id, rating, comment, now) ==
  LET feedback == [ message_id |-> message_id,
                    rating |-> rating,
                    comment |-> comment,
                    timestamp |-> now,
                    session_id |-> self.session_id ]
  IN  [ self |-> [ self EXCEPT !.user_feedback = Append(@, feedback) ],
        feedback |-> feedback ]

\* get_conversation_summary, without session_duration
get_conversation_summary(self) ==
  [ messages_exchanged |-> Len(self.conversation_history),
    topics_discussed |->
       [ i \in DOMAIN SelectSeq(self.conversation_history,
                                LAMBDA msg : "intent" \in DOMAIN msg) |->
           SelectSeq(self.conversation_history,
                     LAMBDA msg : "intent" \in DOMAIN msg)[i].intent ],
    user_context |-> self.user_context,
    last_interaction |->
       IF self.conversation_history # << >>
         THEN Some(self.conversation_history[Len(self.conversation_history)])
         ELSE Absent ]

\* a call that returned data, and a call that raised
Exported(self, data) == [ self |-> self, raised |-> None, data |-> Some(data) ]
ExportRaised(self, error) == [ self |-> self, raised |-> error, data |-> Absent ]

\* export_session_data with the average computed whatever the length of
\* the feedback log
ExportAlwaysDivides(self, now) ==
  IF self.user_feedback = << >>
    THEN ExportRaised(self, "ZeroDivisionError")
    ELSE Exported(self,
           [ session_info |-> [ session_id |-> self.session_id,
                                end_time |-> now,
                                platform |-> "TruePass" ],
             conversation_data |->
                [ messages |-> self.conversation_history,
                  message_count |-> Len(self.conversation_history),
                  user_context |-> self.user_context ],
             feedback_data |->
                [ feedback_entries |-> self.user_feedback,
                  average_rating |->
                     Some([ num |-> SumRatings(self.user_feedback),
                            den |-> Len(self.user_feedback) ]) ],
             analytics |-> get_conversation_summary(self) ])

\* export_session_data handing out the feedback log and starting a new one
ExportDrainsFeedback(self, now) ==
  Exported([ self EXCEPT !.user_feedback = << >> ],
    [ session_info |-> [ session_id |-> self.session_id,
                         end_time |-> now,
                         platform |-> "TruePass" ],
      conversation_data |->
         [ messages |-> self.conversation_history,
           message_count |-> Len(self.conversation_history),
           user_context |-> self.user_context ],
      feedback_data |->
         [ feedback_entries |-> self.user_feedback,
           average_rating |->
              IF self.user_feedback # << >>
                THEN Some([ num |-> SumRatings(self.user_feedback),
                            den |-> Len(self.user_feedback) ])
                ELSE Absent ],
      analytics |-> get_conversation_summary(self) ])

\* export_session_data, without start_time and duration.  The average is a
\* fraction; sum() raises TypeError on a rating that is None.
export_session_data(self, now) ==
  IF \E i \in DOMAIN self.user_feedback : self.user_feedback[i].rating = Absent
    THEN ExportRaised(self, "TypeError")
    ELSE Exported(self,
           [ session_info |-> [ session_id |-> self.session_id,
                                end_time |-> now,
                                platform |-> "TruePass" ],
             conversation_data |->
                [ messages |-> self.conversation_history,
                  message_count |-> Len(self.conversation_history),
                  user_context |-> self.user_context ],
             feedback_data |->
                [ feedback_entries |-> self.user_feedback,
                  average_rating |->
                     IF self.user_feedback # << >>
                       THEN Some([ num |-> SumRatings(self.user_feedback),
                                   den |-> Len(self.user_feedback) ])
                       ELSE Absent ],
             analytics |-> get_conversation_summary(self) ])

SessionMessages == { MsgHello, MsgNoHit }

SessionPages == { None }

\* ratings a caller passes: integers inside and outside 1..5
Ratings == { 0, 5, 6 }

InitSession == Init

SessionChat == ChatFrom(SessionMessages, SessionPages)

\* one call bot.add_user_feedback(message_id, rating, comment)
AddUserFeedback ==
  /\ Len(bot.user_feedback) < MaxFeedback
  /\ \E rating \in Ratings, comment \in { None, "Great response!" } :
        bot' = add_user_feedback(bot, "msg_123", Some(rating), comment,
                                 clock).self
  /\ exported' = << >>
  /\ UNCHANGED << user_input, intent_analysis, turn, completed,
                  active_sessions, heap, clock, workers, served,
                  requested, extracted >>

\* one call bot.export_session_data(); exported keeps the calls made since
\* the last chat or add_user_feedback
ExportSessionData ==
  /\ Len(exported) < MaxExports
  /\ \E r \in { export_session_data(bot, clock) } :
        /\ bot' = r.self
        /\ exported' = Append(exported, [ before |-> bot,
                                          raised |-> r.raised,
                                          data |-> r.data ])
  /\ UNCHANGED << user_input, intent_analysis, turn, completed,
                  active_sessions, heap, clock, workers, served,
                  requested, extracted >>

NextSession == SessionChat \/ AddUserFeedback \/ ExportSessionData

SpecSession == InitSession /\ [][NextSession]_vars

\* C13: export_session_data never fails: with an empty feedback log the
\* exported average_rating is None, with k >= 1 entries it is the sum of
\* their ratings divided by k, and the export has exactly the sections
\* session_info, conversation_data, feedback_data and analytics.
C13_ExportAverage ==
  \A i \in DOMAIN exported :
     LET log == exported[i].before.user_feedback
         k == Len(log)
     IN  /\ exported[i].raised = None
         /\ exported[i].data # Absent
         /\ DOMAIN exported[i].data[1] =
              { "session_info", "conversation_data", "feedback_data",
                "analytics" }
         /\ LET average == exported[i].data[1].feedback_data.average_rating
            IN  IF k = 0
                  THEN average = Absent
                  ELSE /\ average # Absent
                       /\ average[1].den = k
                       /\ average[1].num =
                            SumRatings([ j \in 1 .. k |->
                                         [ rating |-> log[k + 1 - j].rating ] ])

\* an export of a session with a completed turn and an empty feedback log
C13_Witness ==
  /\ exported # << >>
  /\ exported[1].before.user_feedback = << >>
  /\ exported[1].before.conversation_history # << >>
  /\ exported[1].data[1].feedback_data.average_rating = Absent

\* C14: export_session_data is read-only: the call leaves
\* conversation_history, user_context, the feedback log and the session id
\* as they were, and two calls with no chat or add_user_feedback between
\* them export the same messages, message_count and feedback entries.
C14_ExportReadOnly ==
  /\ exported # << >> => bot = exported[Len(exported)].before
  /\ \A i, j \in DOMAIN exported :
        /\ exported[i].before = exported[j].before
        /\ exported[i].data # Absent
        /\ exported[j].data # Absent
        /\ exported[i].data[1].conversation_data.messages =
             exported[j].data[1].conversation_data.messages
        /\ exported[i].data[1].conversation_data.message_count =
             exported[j].data[1].conversation_data.message_count
        /\ exported[i].data[1].feedback_data.feedback_entries =
             exported[j].data[1].feedback_data.feedback_entries
        /\ exported[i].data[1].conversation_data.messages =
             exported[i].before.conversation_history
        /\ exported[i].data[1].feedback_data.feedback_entries =
             exported[i].before.user_feedback

\* two exports in a row of a session with a completed turn and two
\* feedback entries
C14_Witness ==
  /\ Len(exported) = 2
  /\ bot.conversation_history # << >>
  /\ Len(bot.user_feedback) = 2
  /\ bot.user_feedback[1].rating # bot.user_feedback[2].rating

\* C15: every entry of the feedback log has an integer rating in 1..5; a
\* call of add_user_feedback with a rating outside 1..5 appends nothing.
C15_RatingsValidated ==
  \A i \in DOMAIN bot.user_feedback :
     /\ bot.user_feedback[i].rating # Absent
     /\ bot.user_feedback[i].rating[1] \in 1 .. 5

-----------------------------------------------------------------------------
(* SpecFeedback: POST /api/feedback next to POST /api/chat, with JSON      *)
(* objects that lack some of their fields.  The requests arrive within one *)
(* second: neither handler reads the clock for anything but the generated  *)
(* session id and the timestamp of a feedback entry.                       *)

\* a session id no chat request ever sends
StrangerId == StampedId("guess", 0)

\* JSON objects posted to /api/chat: complete, without message, empty
FeedbackChatPayloads ==
  { ("session_id" :> StampedId("web", 0)) @@ ("message" :> MsgHello),
    "session_id" :> StampedId("web", 0),
    << >> }

\* JSON objects posted to /api/feedback: complete with a rating inside and
\* outside 1..5, without rating, without message_id, without session_id,
\* and with the id of no session
FeedbackPayloads ==
  { ("session_id" :> StampedId("web", 0)) @@ ("message_id" :> "msg_123")
       @@ ("rating" :> Some(5)) @@ ("comment" :> "Great response!"),
    ("session_id" :> StampedId("web", 0)) @@ ("message_id" :> "msg_123")
       @@ ("rating" :> Some(6)),
    ("session_id" :> StampedId("web", 0)) @@ ("message_id" :> "msg_123"),
    ("session_id" :> StampedId("web", 0)) @@ ("rating" :> Some(5)),
    ("message_id" :> "msg_123") @@ ("rating" :> Some(5)),
    ("session_id" :> StrangerId) @@ ("message_id" :> "msg_123")
       @@ ("rating" :> Some(5)) }

SessionNotFound == Reply("Session not found", << >>)

ThankYou == Reply("Thank you for your feedback!", << >>)

FeedbackChatReceive(w) == ReceiveFrom(w, FeedbackChatPayloads)

\* the feedback handler getting or creating the session as chat_endpoint
\* does
FeedbackReceiveOrCreate(w) ==
  /\ workers[w].pc = "idle"
  /\ served.received < MaxRequests
  /\ \A v \in Workers : v < w => workers[v].pc # "idle"
  /\ \E data \in FeedbackPayloads :
       LET session_id == Get(data, "session_id", NoId)
           found == session_id \in DOMAIN active_sessions
       IN  /\ workers' = [ workers EXCEPT ![w] =
                [ Idle EXCEPT
                    !.pc = "add_feedback",
                    !.endpoint = "feedback",
                    !.lacks = { "session_id", "message_id", "rating" }
                                \ DOMAIN data,
                    !.session_id = session_id,
                    !.message_id = Get(data, "message_id", None),
                    !.rating = Get(data, "rating", Absent),
                    !.comment = Get(data, "comment", "") ] ]
           /\ heap' = IF found THEN heap
                       ELSE Append(heap, NewWebChatbot(session_id, clock))
           /\ active_sessions' =
                IF found THEN active_sessions
                ELSE (session_id :> (Len(heap) + 1)) @@ active_sessions
  /\ served' = [ served EXCEPT !.received = @ + 1, !.last = << >> ]
  /\ UNCHANGED << clock >>
  /\ UNCHANGED Unused

\* lines 941-947: read the payload, a missing field read as None (comment
\* as ''), and test "session_id in active_sessions"
FeedbackReceive(w) ==
  /\ workers[w].pc = "idle"
  /\ served.received < MaxRequests
  /\ \A v \in Workers : v < w => workers[v].pc # "idle"
  /\ \E data \in FeedbackPayloads :
       LET session_id == Get(data, "session_id", NoId)
           found == session_id \in DOMAIN active_sessions
       IN  workers' = [ workers EXCEPT ![w] =
             [ Idle EXCEPT
                 !.pc = IF found THEN "add_feedback" ELSE "feedback_respond",
                 !.endpoint = "feedback",
                 !.lacks = { "session_id", "message_id", "rating" }
                             \ DOMAIN data,
                 !.session_id = session_id,
                 !.message_id = Get(data, "message_id", None),
                 !.rating = Get(data, "rating", Absent),
                 !.comment = Get(data, "comment", ""),
                 !.response = IF found THEN NoReply ELSE SessionNotFound,
                 !.status = IF found THEN 200 ELSE 404 ] ]
  /\ served' = [ served EXCEPT !.received = @ + 1, !.last = << >> ]
  /\ UNCHANGED << active_sessions, heap, clock >>
  /\ UNCHANGED Unused

\* lines 948-949: chatbot = active_sessions[session_id] and
\* chatbot.add_user_feedback(message_id, rating, comment)
FeedbackAdd(w) ==
  /\ workers[w].pc = "add_feedback"
  /\ LET me == workers[w]
         chatbot == active_sessions[me.session_id]
     IN  /\ heap' = [ heap EXCEPT ![chatbot] =
                        add_user_feedback(@, me.message_id, me.rating,
                                          me.comment, clock).self ]
         /\ workers' = [ workers EXCEPT ![w].chatbot = chatbot,
                                        ![w].response = ThankYou,
                                        ![w].pc = "feedback_respond" ]
  /\ UNCHANGED << active_sessions, clock >>
  /\ Quiet
  /\ UNCHANGED Unused

\* lines 951-960: the JSON response, 200 or 404
FeedbackRespond(w) ==
  /\ workers[w].pc = "feedback_respond"
  /\ LET me == workers[w]
     IN  served' = [ served EXCEPT
           !.last = << [ endpoint |-> me.endpoint,
                         lacks |-> me.lacks,
                         status |-> me.status,
                         success |-> me.status = 200,
                         session_id |-> me.session_id,
                         response |-> me.response ] >> ]
  /\ workers' = [ workers EXCEPT ![w] = Idle ]
  /\ UNCHANGED << active_sessions, heap, clock >>
  /\ UNCHANGED Unused

NextFeedback ==
  \/ \E w \in Workers : FeedbackChatReceive(w)
  \/ \E w \in Workers : Create(w)
  \/ \E w \in Workers : Process(w)
  \/ \E w \in Workers : Respond(w)
  \/ \E w \in Workers : FeedbackReceive(w)
  \/ \E w \in Workers : FeedbackAdd(w)
  \/ \E w \in Workers : FeedbackRespond(w)

SpecFeedback == InitHTTP /\ [][NextFeedback]_vars

\* thread w is answering a POST /feedback whose session_id it did not find
\* in active_sessions
NotFound(w) ==
  /\ workers[w].endpoint = "feedback"
  /\ workers[w].pc = "feedback_respond"
  /\ workers[w].status = 404

\* C11: a POST /feedback whose session_id is not in active_sessions is
\* answered with status 404 and success false; handling it appends no
\* feedback entry, creates no session, and leaves the thread free for the
\* next request.
C11_UnknownSessionFeedback ==
  [][ \A w \in Workers :
        /\ ( /\ workers[w].pc = "idle"
             /\ workers'[w].endpoint = "feedback"
             /\ workers'[w].session_id \notin DOMAIN active_sessions )
           => ( /\ NotFound(w)'
                /\ heap' = heap
                /\ active_sessions' = active_sessions )
        /\ ( NotFound(w) /\ workers'[w] # workers[w] )
           => ( /\ heap' = heap
                /\ active_sessions' = active_sessions
                /\ workers'[w] = Idle
                /\ served'.last # << >>
                /\ served'.last[1].endpoint = "feedback"
                /\ served'.last[1].status = 404
                /\ ~served'.last[1].success ) ]_vars

\* a 404 was sent for a feedback request while a session with a feedback
\* entry exists
C11_Witness ==
  /\ served.last # << >>
  /\ Sent.endpoint = "feedback"
  /\ Sent.status = 404
  /\ \E o \in DOMAIN heap : heap[o].user_feedback # << >>

\* C12: a request whose JSON object lacks a required field (message for
\* POST /chat; session_id, message_id or rating for POST /feedback) is
\* answered with status 500 and success false.
C12_MissingFieldIs500 ==
  (served.last # << >> /\ Sent.lacks # { })
    => (Sent.status = 500 /\ ~Sent.success)

=============================================================================
